---------------------------- MODULE Spec2Model ----------------------------
(***************************************************************************)
(* A model of the data_updater microservice: the DatabaseHandler (cursor   *)
(* scoping and units of work on one psycopg2 connection), the              *)
(* DatabaseAdaptor (per-device table provisioning and row insertion), the  *)
(* ThingsBoardAdaptor (device enumeration and telemetry mapping) and the   *)
(* DataUpdaterService.run cycle.                                           *)
(*                                                                         *)
(* The program is single-threaded and synchronous.  Every public           *)
(* operation of the handler and of the adaptor is one action; a run of the *)
(* service is a sequence of steps (one per call it makes), during which no *)
(* other caller acts.                                                      *)
(***************************************************************************)
EXTENDS Integers, Sequences, FiniteSets, TLC

(***************************************************************************)
(* Bounds of the model.                                                    *)
(***************************************************************************)
\* Rows a table may hold before further inserts into it are left out.
MaxRows == 2
\* Distinct readings the telemetry source can hold (reading ids 1..MaxReading).
MaxReading == 2

(***************************************************************************)
(* Data.                                                                   *)
(***************************************************************************)
Position(seq, x) == CHOOSE i \in 1..Len(seq) : seq[i] = x

\* Names of the devices (entities) of the tenant, spelled character by
\* character: two lower-case names, a name with a capital letter, and a
\* name with a hyphen.
Names == {<<"d", "1">>, <<"D", "2">>, <<"d", "3">>, <<"d", "-", "4">>}

\* f"device_{device_id}": the prefix "device_" and the name.
TableName(device_id) == <<"device", device_id>>

UpperCase ==
    <<"A", "B", "C", "D", "E", "F", "G", "H", "I", "J", "K", "L", "M",
      "N", "O", "P", "Q", "R", "S", "T", "U", "V", "W", "X", "Y", "Z">>

LowerCase ==
    <<"a", "b", "c", "d", "e", "f", "g", "h", "i", "j", "k", "l", "m",
      "n", "o", "p", "q", "r", "s", "t", "u", "v", "w", "x", "y", "z">>

Range(seq) == {seq[i] : i \in 1..Len(seq)}

IdentifierCharacters ==
    Range(UpperCase) \cup Range(LowerCase)
        \cup {"0", "1", "2", "3", "4", "5", "6", "7", "8", "9", "_", "$"}

\* The statements of create_table, insert_into_table, get_columns_from_table
\* and check_value_exists put table_name into the SQL text as it is, with no
\* quotes: the text parses when the name, which follows "device_", is made
\* of the characters of an identifier.
IsIdentifier(table_name) ==
    \A i \in 1..Len(table_name[2]) : table_name[2][i] \in IdentifierCharacters

\* The table such a statement names: PostgreSQL folds an unquoted identifier
\* to lower case ("device_" is in lower case already).
downcase_identifier(table_name) ==
    <<table_name[1],
      [i \in 1..Len(table_name[2]) |->
          IF table_name[2][i] \in Range(UpperCase)
          THEN LowerCase[Position(UpperCase, table_name[2][i])]
          ELSE table_name[2][i]]>>

\* The names the catalogue can hold for the tables of these devices.
Tables ==
    {downcase_identifier(TableName(n)) :
        n \in {m \in Names : IsIdentifier(TableName(m))}}

\* DeviceTableStatus
DeviceTableStatus_NEW == "NEW"

DeviceTableStatus_EXISTING == "EXISTING"

\* DatabaseAdaptor.device_table_column_names: an ordered mapping
\* column name -> column type.
device_table_column_names ==
    << <<"battery_percentage", "FLOAT">>,
       <<"battery_timestamp", "BIGINT">>,
       <<"gps_latitude", "FLOAT">>,
       <<"gps_longitude", "FLOAT">>,
       <<"gps_timestamp", "BIGINT">>,
       <<"ai_normal_percentage", "INT">>,
       <<"ai_error1_percentage", "INT">>,
       <<"ai_error2_percentage", "INT">>,
       <<"ai_error3_percentage", "INT">>,
       <<"ai_timestamp", "BIGINT">> >>

\* The keys of an ordered mapping, in order, and as a set.
Keys(mapping) == [i \in 1..Len(mapping) |-> mapping[i][1]]

KeySet(mapping) == {mapping[i][1] : i \in 1..Len(mapping)}

(***************************************************************************)
(* ThingsBoardAdaptor: the raw telemetry of a device and its mapping.      *)
(*                                                                         *)
(* A raw reading maps a sensor group ("bat", "gnss", "dev", "env", "ai",   *)
(* each possibly absent) to a list of entries; an entry has a "ts" and a   *)
(* "value", a JSON text that json.loads parses (parsed = TRUE, with its    *)
(* fields) or rejects.                                                     *)
(***************************************************************************)
Groups == <<"bat", "gnss", "dev", "env", "ai">>

\* The keyword arguments with ai_timestamp read from the "ts" of the entry.
TelemetryFields_ai_entry_ts ==
    << <<"battery_percentage", "bat", "v", "payload">>,
       <<"battery_timestamp", "bat", "ts", "payload">>,
       <<"gps_latitude", "gnss", "lat", "payload">>,
       <<"gps_longitude", "gnss", "lng", "payload">>,
       <<"gps_speed", "gnss", "spd", "payload">>,
       <<"gps_timestamp", "gnss", "ts", "entry">>,
       <<"cellular_imei", "dev", "imei", "payload">>,
       <<"cellular_iccid", "dev", "iccid", "payload">>,
       <<"firmware_version", "dev", "modV", "payload">>,
       <<"board_version", "dev", "brdV", "payload">>,
       <<"application_version", "dev", "appV", "payload">>,
       <<"development_timestamp", "dev", "ts", "payload">>,
       <<"environmental_temperature", "env", "temp", "payload">>,
       <<"environmental_humidity", "env", "hum", "payload">>,
       <<"environmental_pressure", "env", "atmp", "payload">>,
       <<"environmental_timestamp", "env", "ts", "payload">>,
       <<"ai_normal_percentage", "ai", "n", "payload">>,
       <<"ai_error1_percentage", "ai", "e1", "payload">>,
       <<"ai_error2_percentage", "ai", "e2", "payload">>,
       <<"ai_error3_percentage", "ai", "e3", "payload">>,
       <<"ai_timestamp", "ai", "ts", "entry">> >>

\* The fields of TelemetryMessage in the order get_device_telemetry
\* evaluates them: <<field, group, key, "payload" | "entry">>.
TelemetryFields ==
    << <<"battery_percentage", "bat", "v", "payload">>,
       <<"battery_timestamp", "bat", "ts", "payload">>,
       <<"gps_latitude", "gnss", "lat", "payload">>,
       <<"gps_longitude", "gnss", "lng", "payload">>,
       <<"gps_speed", "gnss", "spd", "payload">>,
       <<"gps_timestamp", "gnss", "ts", "entry">>,
       <<"cellular_imei", "dev", "imei", "payload">>,
       <<"cellular_iccid", "dev", "iccid", "payload">>,
       <<"firmware_version", "dev", "modV", "payload">>,
       <<"board_version", "dev", "brdV", "payload">>,
       <<"application_version", "dev", "appV", "payload">>,
       <<"development_timestamp", "dev", "ts", "payload">>,
       <<"environmental_temperature", "env", "temp", "payload">>,
       <<"environmental_humidity", "env", "hum", "payload">>,
       <<"environmental_pressure", "env", "atmp", "payload">>,
       <<"environmental_timestamp", "env", "ts", "payload">>,
       <<"ai_normal_percentage", "ai", "n", "payload">>,
       <<"ai_error1_percentage", "ai", "e1", "payload">>,
       <<"ai_error2_percentage", "ai", "e2", "payload">>,
       <<"ai_error3_percentage", "ai", "e3", "payload">>,
       <<"ai_timestamp", "ai", "ts", "payload">> >>

FieldNames == {TelemetryFields[i][1] : i \in 1..Len(TelemetryFields)}

\* One keyword argument of the TelemetryMessage(...) call:
\* telemetry_message[group][0]["ts"], or
\* json.loads(telemetry_message[group][0]["value"])[key].
FieldLookup(telemetry_message, spec) ==
    LET group == spec[2]
        key == spec[3]
    IN  IF group \notin DOMAIN telemetry_message
        THEN [ok |-> FALSE, error |-> "KeyError", key |-> group, value |-> 0]
        ELSE IF Len(telemetry_message[group]) = 0
        THEN [ok |-> FALSE, error |-> "IndexError", key |-> group, value |-> 0]
        ELSE LET entry == telemetry_message[group][1]
             IN  IF spec[4] = "entry"
                 THEN [ok |-> TRUE, error |-> "", key |-> "", value |-> entry.ts]
                 ELSE IF ~entry.value.parsed
                 THEN [ok |-> FALSE, error |-> "JSONDecodeError",
                       key |-> group, value |-> 0]
                 ELSE IF key \notin DOMAIN entry.value.fields
                 THEN [ok |-> FALSE, error |-> "KeyError", key |-> key,
                       value |-> 0]
                 ELSE [ok |-> TRUE, error |-> "", key |-> "",
                       value |-> entry.value.fields[key]]

\* ThingsBoardAdaptor.get_device_telemetry, on the raw reading the client
\* returned: the arguments are evaluated in order and the first one that
\* fails raises; no exception is caught.
get_device_telemetry(telemetry_message) ==
    LET n == Len(TelemetryFields)
        failing == {i \in 1..n :
                       ~FieldLookup(telemetry_message, TelemetryFields[i]).ok}
    IN  IF failing = {}
        THEN [raised |-> FALSE, error |-> "", key |-> "",
              value |-> [f \in FieldNames |->
                  LET i == CHOOSE j \in 1..n : TelemetryFields[j][1] = f
                  IN  FieldLookup(telemetry_message, TelemetryFields[i]).value]]
        ELSE LET first == CHOOSE i \in failing : \A j \in failing : i <= j
                 r == FieldLookup(telemetry_message, TelemetryFields[first])
             IN  [raised |-> TRUE, error |-> r.error, key |-> r.key,
                  value |-> [f \in {} |-> 0]]

\* The payload keys of each group in a complete reading.
PayloadKeys(group) ==
    CASE group = "bat" -> {"v", "ts"}
      [] group = "gnss" -> {"lat", "lng", "spd"}
      [] group = "dev" -> {"imei", "iccid", "modV", "brdV", "appV", "ts"}
      [] group = "env" -> {"temp", "hum", "atmp", "ts"}
      [] group = "ai" -> {"n", "e1", "e2", "e3", "ts"}

GroupSet == {Groups[i] : i \in 1..Len(Groups)}

\* The keys of the payloads, and "entry" for the "ts" of an entry.
ReadingKeys ==
    <<"v", "ts", "lat", "lng", "spd", "imei", "iccid", "modV", "brdV", "appV",
      "temp", "hum", "atmp", "n", "e1", "e2", "e3", "entry">>

\* The value reading v holds under key k of group g: no two places of a
\* reading hold the same value, and "v" of "bat" holds v.
ReadingValue(g, k, v) ==
    v + 10 * (Position(ReadingKeys, k) - 1) + 200 * (Position(Groups, g) - 1)

\* A complete reading with id v.
FullReading(v) ==
    [g \in GroupSet |->
        << [ts |-> ReadingValue(g, "entry", v),
            value |-> [parsed |-> TRUE,
                       fields |-> [k \in PayloadKeys(g) |->
                                      ReadingValue(g, k, v)]]] >>]

\* What the platform holds for a device: the id of its latest reading, the
\* groups that reading lacks, the groups whose list of entries is empty, the
\* groups whose payload is no JSON text, and the payload keys
\* (<<group, key>>) that reading lacks.
Damaged(v, lacks, empty, garbled, without) ==
    [reading |-> v, lacks |-> lacks, empty |-> empty, garbled |-> garbled,
     without |-> without]

\* A reading whose only damage is the groups it lacks.
Held(v, lacks) == Damaged(v, lacks, {}, {}, {})

\* RestClientCE.get_latest_timeseries(entity): the raw reading of the device.
get_latest_timeseries(src, id) ==
    LET h == src[id]
        full == FullReading(h.reading)
        kept(g) == PayloadKeys(g) \ {p[2] : p \in {q \in h.without : q[1] = g}}
    IN  [g \in GroupSet \ h.lacks |->
            IF g \in h.empty
            THEN <<>>
            ELSE << [ts |-> full[g][1].ts,
                     value |-> IF g \in h.garbled
                               THEN [parsed |-> FALSE, fields |-> <<>>]
                               ELSE [parsed |-> TRUE,
                                     fields |-> [k \in kept(g) |->
                                         full[g][1].value.fields[k]]]] >>]

(***************************************************************************)
(* The database behind the psycopg2 connection.                            *)
(*                                                                         *)
(* store is the committed content, work the content the connection's open  *)
(* transaction sees.  txn is the connection's transaction status: "idle",  *)
(* "intrans" (a statement has begun a transaction) or "inerror" (a         *)
(* statement failed: the server rejects every statement until a rollback). *)
(* A table is [exists, columns, rows]; a row maps column names to values.  *)
(***************************************************************************)
NoTable == [exists |-> FALSE, columns |-> <<>>, rows |-> <<>>]

EmptyDatabase == [t \in Tables |-> NoTable]

\* The connection of the held cursor when it is not db_conn: connect() on a
\* handler that holds an open cursor replaces db_conn, and the cursor goes
\* on working on the connection it was made by, which has its own
\* transaction.  NoEarlier: the cursor, if any, is a cursor of db_conn.
NoEarlier == [on |-> FALSE, txn |-> "idle", work |-> EmptyDatabase]

Earlier(txn, work) == [on |-> TRUE, txn |-> txn, work |-> work]

\* The value of a call, named once: {F(x) : x \in {call}} is the set of the
\* one value F gives for the result x of the call.
The(S) == CHOOSE x \in S : TRUE

\* Results of a call: the state after it, whether it raised and what, the
\* value returned.
Return(s, value) ==
    [st |-> s, raised |-> FALSE, error |-> "", value |-> value]

Raise(s, error) ==
    [st |-> s, raised |-> TRUE, error |-> error, value |-> "None"]

\* The call is appended to the log of driver calls of the operation.
Called(s, call) == [s EXCEPT !.calls = Append(@, call)]


(***************************************************************************)
(* Statements.  A statement is [kind, table, ...]; the server rejects it   *)
(* (a psycopg2 error) when its text does not parse (a table name that is   *)
(* no identifier) or names a table or a column that is not there.          *)
(* fault = "db" is a rejection for a reason outside the model (a           *)
(* constraint, a privilege, a lost server).                                *)
(***************************************************************************)
Faults == {"none", "db"}

\* A dict argument, and an argument that is no dict (None).
Dict(items) == [dict |-> TRUE, items |-> items]

None == [dict |-> FALSE, items |-> <<>>]

Rejected(work, statement) ==
    LET table == work[downcase_identifier(statement.table)]
    IN  CASE statement.kind = "SELECT EXISTS" -> FALSE
          [] statement.kind = "CREATE TABLE IF NOT EXISTS" ->
                ~IsIdentifier(statement.table)
          [] statement.kind = "INSERT" ->
                \/ ~IsIdentifier(statement.table)
                \/ ~table.exists
                \/ Len(statement.column_values) = 0
                \/ ~(KeySet(statement.column_values) \subseteq KeySet(table.columns))
          [] statement.kind = "SELECT" ->
                \/ ~IsIdentifier(statement.table)
                \/ ~table.exists
                \/ ~(statement.column_names \subseteq KeySet(table.columns))
          [] statement.kind = "SELECT COUNT" ->
                \/ ~IsIdentifier(statement.table)
                \/ ~table.exists
                \/ statement.column_name \notin KeySet(table.columns)

\* The row an INSERT adds: the named columns hold the given values.
RowOf(column_values) ==
    [c \in KeySet(column_values) |->
        LET i == CHOOSE j \in 1..Len(column_values) : column_values[j][1] = c
        IN  column_values[i][2]]

\* What an accepted statement does to the content the transaction sees.
Effect(work, statement) ==
    LET name == downcase_identifier(statement.table)
        table == work[name]
    IN  CASE statement.kind = "CREATE TABLE IF NOT EXISTS" ->
                IF table.exists
                THEN work
                ELSE [work EXCEPT ![name] =
                         [exists |-> TRUE, columns |-> statement.columns,
                          rows |-> <<>>]]
          [] statement.kind = "INSERT" ->
                [work EXCEPT ![name].rows =
                    Append(@, RowOf(statement.column_values))]
          [] OTHER -> work

\* What the cursor holds after an accepted statement (fetchone / fetchall).
\* SELECT EXISTS takes table_name as a parameter and compares it, as the
\* string it is, with the names in the catalogue.
Fetched(work, statement) ==
    LET table == work[downcase_identifier(statement.table)]
    IN  CASE statement.kind = "SELECT EXISTS" ->
                statement.table \in Tables /\ work[statement.table].exists
          [] statement.kind = "SELECT" ->
                [i \in 1..Len(table.rows) |->
                    [c \in statement.column_names |-> table.rows[i][c]]]
          [] statement.kind = "SELECT COUNT" ->
                Cardinality({i \in 1..Len(table.rows) :
                    table.rows[i][statement.column_name] = statement.value})
          [] OTHER -> "None"

\* self.db_cursor.execute(...), on the connection the cursor was made by:
\* the first statement of a transaction begins it; a failed statement leaves
\* the transaction in error, and in that state every statement is refused.
\* A closed cursor refuses every statement; None has no execute.
execute(s, statement, fault) ==
    LET s1 == Called(s, statement.kind)
        t0 == IF s.earlier.on THEN s.earlier.txn ELSE s.txn
        w0 == IF s.earlier.on THEN s.earlier.work ELSE s.work
        After(t, w) == IF s.earlier.on
                       THEN [s1 EXCEPT !.earlier = Earlier(t, w)]
                       ELSE [s1 EXCEPT !.txn = t, !.work = w]
    IN  IF s.db_cursor = "None"
        THEN Raise(s, "AttributeError")
        ELSE IF s.db_cursor = "closed"
        THEN Raise(s1, "InterfaceError")
        ELSE IF t0 = "inerror"
        THEN Raise(s1, "InFailedSqlTransaction")
        ELSE IF fault = "db"
        THEN Raise(After("inerror", w0), "DatabaseError")
        ELSE IF Rejected(w0, statement)
        THEN Raise(After("inerror", w0), "ProgrammingError")
        ELSE Return(After("intrans", Effect(w0, statement)),
                    Fetched(w0, statement))

\* self.db_conn.commit(): the content of db_conn's transaction becomes the
\* committed content (a transaction in error is rolled back instead).  A
\* closed connection refuses; None has no commit.
commit(s) ==
    LET s1 == Called(s, "commit")
    IN  IF s.db_conn = "None"
        THEN Raise(s, "AttributeError")
        ELSE IF s.db_conn = "closed"
        THEN Raise(s1, "InterfaceError")
        ELSE IF s.txn = "inerror"
        THEN Return([s1 EXCEPT !.txn = "idle", !.work = s.store], "None")
        ELSE Return([s1 EXCEPT !.txn = "idle", !.store = s.work], "None")

\* self.db_conn.rollback(): the content of db_conn's transaction is dropped.
rollback(s) ==
    LET s1 == Called(s, "rollback")
    IN  IF s.db_conn = "None"
        THEN Raise(s, "AttributeError")
        ELSE IF s.db_conn = "closed"
        THEN Raise(s1, "InterfaceError")
        ELSE Return([s1 EXCEPT !.txn = "idle", !.work = s.store], "None")

(***************************************************************************)
(* DatabaseHandler.                                                        *)
(***************************************************************************)
\* DatabaseHandler.connect: psycopg2.connect raises (fault = "db") and
\* db_conn stays as it was, or returns a new connection, which replaces
\* db_conn.  The connection replaced lives on only as the connection of an
\* open cursor the handler holds.
connect(s, fault) ==
    IF fault = "db"
    THEN Raise(s, "OperationalError")
    ELSE Return([s EXCEPT !.db_conn = "open", !.txn = "idle",
                          !.work = s.store,
                          !.earlier =
                              IF s.db_cursor # "open" THEN NoEarlier
                              ELSE IF s.earlier.on THEN s.earlier
                              ELSE Earlier(s.txn, s.work)],
                "None")

\* DatabaseHandler.disconnect: the cursor held, open or closed, is closed
\* and stays in db_cursor; then db_conn is closed and stays in db_conn
\* (None.close() raises AttributeError).
disconnect(s) ==
    LET s1 == IF s.db_cursor = "None"
              THEN s
              ELSE [Called(s, "close") EXCEPT
                        !.db_cursor = "closed",
                        !.cursors = IF s.db_cursor = "open" THEN @ - 1 ELSE @,
                        !.earlier = NoEarlier]
    IN  IF s.db_conn = "None"
        THEN Raise(s1, "AttributeError")
        ELSE Return([Called(s1, "conn.close") EXCEPT
                         !.db_conn = "closed", !.txn = "idle",
                         !.work = s.store],
                    "None")

\* acquire_cursor that asks the connection for a cursor whether or not
\* db_cursor holds one.
acquire_cursor_always(s) ==
    IF s.db_conn = "None"
    THEN Raise(s, "AttributeError")
    ELSE IF s.db_conn = "closed"
    THEN Raise(Called(s, "cursor"), "InterfaceError")
    ELSE Return([Called(s, "cursor") EXCEPT !.db_cursor = "open",
                                            !.cursors = @ + 1,
                                            !.earlier = NoEarlier],
                "None")

\* DatabaseHandler.acquire_cursor: a cursor is asked for only when db_cursor
\* holds none (a closed cursor is held as well as an open one); with no
\* connection, None.cursor() raises AttributeError; a closed connection
\* refuses.
acquire_cursor(s) ==
    IF s.db_cursor # "None"
    THEN Return(s, "None")
    ELSE IF s.db_conn = "None"
    THEN Raise(s, "AttributeError")
    ELSE IF s.db_conn = "closed"
    THEN Raise(Called(s, "cursor"), "InterfaceError")
    ELSE Return([Called(s, "cursor") EXCEPT !.db_cursor = "open",
                                            !.cursors = @ + 1],
                "None")

\* DatabaseHandler.release_cursor: None.close() raises AttributeError;
\* closing a closed cursor does nothing.
release_cursor(s) ==
    IF s.db_cursor = "None"
    THEN Raise(s, "AttributeError")
    ELSE Return([Called(s, "close") EXCEPT
                     !.db_cursor = "None",
                     !.cursors = IF s.db_cursor = "open" THEN @ - 1 ELSE @,
                     !.earlier = NoEarlier],
                "None")

\* The body of check_table_exists.
check_table_exists_func(s, args) ==
    The({IF e.raised THEN e ELSE Return(e.st, e.value) :
         e \in {execute(s, [kind |-> "SELECT EXISTS",
                            table |-> args.table_name],
                        args.fault)}})

\* self.db_conn.commit() and then self.db_conn.rollback(), the two lines
\* that end create_table and insert_into_table.
commit_rollback(s) ==
    The({IF c.raised THEN c ELSE rollback(c.st) : c \in {commit(s)}})

\* The body of create_table: execute, commit, rollback.
create_table_func(s, args) ==
    The({IF e.raised THEN e ELSE commit_rollback(e.st) :
         e \in {execute(s, [kind |-> "CREATE TABLE IF NOT EXISTS",
                            table |-> args.table_name,
                            columns |-> args.columns],
                        args.fault)}})

\* The body of insert_into_table: column_values.keys() raises on an argument
\* that is no dict; then execute, commit, rollback.
insert_into_table_func(s, args) ==
    IF ~args.column_values.dict
    THEN Raise(s, "AttributeError")
    ELSE The({IF e.raised THEN e ELSE commit_rollback(e.st) :
              e \in {execute(s, [kind |-> "INSERT",
                                 table |-> args.table_name,
                                 column_values |-> args.column_values.items],
                             args.fault)}})

\* The body of get_columns_from_table (extras = "").
get_columns_from_table_func(s, args) ==
    The({IF e.raised THEN e ELSE Return(e.st, e.value) :
         e \in {execute(s, [kind |-> "SELECT", table |-> args.table_name,
                            column_names |-> args.column_names],
                        args.fault)}})

\* The body of check_value_exists: count > 0.
check_value_exists_func(s, args) ==
    The({IF e.raised THEN e ELSE Return(e.st, e.value > 0) :
         e \in {execute(s, [kind |-> "SELECT COUNT",
                            table |-> args.table_name,
                            column_name |-> args.column_name,
                            value |-> args.value],
                        args.fault)}})

\* The function a decorated name stands for.
func(name, s, args) ==
    CASE name = "check_table_exists" -> check_table_exists_func(s, args)
      [] name = "create_table" -> create_table_func(s, args)
      [] name = "insert_into_table" -> insert_into_table_func(s, args)
      [] name = "get_columns_from_table" -> get_columns_from_table_func(s, args)
      [] name = "check_value_exists" -> check_value_exists_func(s, args)

\* with_cursor's wrapper: acquire_cursor, the function, release_cursor,
\* with no try/finally: an exception of the function leaves the wrapper
\* before release_cursor.
with_cursor(name, s, args) ==
    The({IF a.raised
         THEN a
         ELSE The({IF result.raised
                   THEN result
                   ELSE The({IF r.raised
                             THEN r
                             ELSE Return(r.st, result.value) :
                             r \in {release_cursor(result.st)}}) :
                   result \in {func(name, a.st, args)}}) :
         a \in {acquire_cursor(s)}})

check_table_exists(s, table_name, fault) ==
    with_cursor("check_table_exists", s,
                [table_name |-> table_name, fault |-> fault])

create_table(s, table_name, columns, fault) ==
    with_cursor("create_table", s,
                [table_name |-> table_name, columns |-> columns,
                 fault |-> fault])

insert_into_table(s, table_name, column_values, fault) ==
    with_cursor("insert_into_table", s,
                [table_name |-> table_name, column_values |-> column_values,
                 fault |-> fault])

get_columns_from_table(s, table_name, column_names, fault) ==
    with_cursor("get_columns_from_table", s,
                [table_name |-> table_name, column_names |-> column_names,
                 fault |-> fault])

check_value_exists(s, table_name, column_name, value, fault) ==
    with_cursor("check_value_exists", s,
                [table_name |-> table_name, column_name |-> column_name,
                 value |-> value, fault |-> fault])

(***************************************************************************)
(* create_database_handler and the attribute it keeps its handler in.      *)
(*                                                                         *)
(* Settings are told apart by their host; the attribute is unset, or holds *)
(* a handler: the instance-th DatabaseHandler the function has made, and   *)
(* the settings it was made with.                                          *)
(***************************************************************************)
MaxSettings == 10

\* settings = None
NoSettings == [given |-> FALSE, host |-> 0]

DatabaseSettings(host) == [given |-> TRUE, host |-> host]

\* not hasattr(create_database_handler, "database_handler")
Unset == [set |-> FALSE, instance |-> 0, settings |-> NoSettings]

\* create_database_handler that makes a new handler whenever it is given
\* settings.
create_database_handler_renewing(attribute, settings) ==
    IF settings.given
    THEN LET handler == [set |-> TRUE, instance |-> attribute.instance + 1,
                         settings |-> settings]
         IN  [attribute |-> handler, raised |-> FALSE, error |-> "",
              value |-> handler]
    ELSE IF ~attribute.set
    THEN [attribute |-> attribute, raised |-> TRUE, error |-> "ValueError",
          value |-> Unset]
    ELSE [attribute |-> attribute, raised |-> FALSE, error |-> "",
          value |-> attribute]

\* create_database_handler(settings): the attribute after the call, and the
\* handler returned or the exception raised.
create_database_handler(attribute, settings) ==
    IF ~attribute.set
    THEN IF ~settings.given
         THEN [attribute |-> attribute, raised |-> TRUE,
               error |-> "ValueError", value |-> Unset]
         ELSE LET handler == [set |-> TRUE,
                              instance |-> attribute.instance + 1,
                              settings |-> settings]
              IN  [attribute |-> handler, raised |-> FALSE, error |-> "",
                   value |-> handler]
    ELSE [attribute |-> attribute, raised |-> FALSE, error |-> "",
          value |-> attribute]

(***************************************************************************)
(* DatabaseAdaptor.                                                        *)
(***************************************************************************)
\* The converter with the GPS speed in the place of the latitude.
telemetry_to_database_entry_converter_gps_speed(telemetry) ==
    << <<"battery_percentage", telemetry.battery_percentage>>,
       <<"battery_timestamp", telemetry.battery_timestamp>>,
       <<"gps_speed", telemetry.gps_speed>>,
       <<"gps_longitude", telemetry.gps_longitude>>,
       <<"gps_timestamp", telemetry.gps_timestamp>>,
       <<"ai_normal_percentage", telemetry.ai_normal_percentage>>,
       <<"ai_error1_percentage", telemetry.ai_error1_percentage>>,
       <<"ai_error2_percentage", telemetry.ai_error2_percentage>>,
       <<"ai_error3_percentage", telemetry.ai_error3_percentage>>,
       <<"ai_timestamp", telemetry.ai_timestamp>> >>

\* DatabaseAdaptor.telemetry_to_database_entry_converter
telemetry_to_database_entry_converter(telemetry) ==
    << <<"battery_percentage", telemetry.battery_percentage>>,
       <<"battery_timestamp", telemetry.battery_timestamp>>,
       <<"gps_latitude", telemetry.gps_latitude>>,
       <<"gps_longitude", telemetry.gps_longitude>>,
       <<"gps_timestamp", telemetry.gps_timestamp>>,
       <<"ai_normal_percentage", telemetry.ai_normal_percentage>>,
       <<"ai_error1_percentage", telemetry.ai_error1_percentage>>,
       <<"ai_error2_percentage", telemetry.ai_error2_percentage>>,
       <<"ai_error3_percentage", telemetry.ai_error3_percentage>>,
       <<"ai_timestamp", telemetry.ai_timestamp>> >>

\* DatabaseAdaptor.create_new_device_table: the table is created when
\* check_table_exists says it is not there.
create_new_device_table(s, device_id, fault1, fault2) ==
    The({IF c.raised
         THEN c
         ELSE IF ~c.value
         THEN The({IF k.raised
                   THEN k
                   ELSE Return(k.st, DeviceTableStatus_NEW) :
                   k \in {create_table(c.st, TableName(device_id),
                                       device_table_column_names, fault2)}})
         ELSE Return(c.st, DeviceTableStatus_EXISTING) :
         c \in {check_table_exists(s, TableName(device_id), fault1)}})

\* DatabaseAdaptor.add_telemetry
add_telemetry(s, device_id, telemetry, fault) ==
    insert_into_table(s, TableName(device_id),
                      Dict(telemetry_to_database_entry_converter(telemetry)),
                      fault)

(***************************************************************************)
(* ThingsBoardAdaptor: the devices of the tenant.                          *)
(***************************************************************************)
\* A device as the platform holds it.
TenantDevice(name, type) ==
    [name |-> name, id |-> <<"uuid", name>>, type |-> type]

\* RestClientCE.get_tenant_devices(page_size, page): one page of the
\* tenant's devices and their total number; pages count from 0.
get_tenant_devices(tenant, page_size, page) ==
    LET from == page * page_size + 1
        to == IF (page + 1) * page_size < Len(tenant)
              THEN (page + 1) * page_size
              ELSE Len(tenant)
    IN  [data |-> SubSeq(tenant, from, to), total_elements |-> Len(tenant)]

IsDieselMotor(next_device) == next_device.type = "DieselMotor"

\* ThingsBoardDevice(name=str(next_device.name), id=str(next_device.id.id))
ThingsBoardDevice(next_device) ==
    [name |-> next_device.name, id |-> next_device.id]

RECURSIVE get_project_devices_loop(_, _, _)
\* The loop of get_project_devices from device_index on.
get_project_devices_loop(tenant, device_index, total_elements) ==
    IF device_index >= total_elements
    THEN <<>>
    ELSE LET response == get_tenant_devices(tenant, 1, device_index)
             kept == SelectSeq(response.data, IsDieselMotor)
         IN  [i \in 1..Len(kept) |-> ThingsBoardDevice(kept[i])]
             \o get_project_devices_loop(tenant, device_index + 1,
                                         total_elements)

\* get_project_devices with its loop starting at page 1.
get_project_devices_from_page_1(tenant) ==
    get_project_devices_loop(tenant, 1,
        get_tenant_devices(tenant, 1, 1).total_elements)

\* ThingsBoardAdaptor.get_project_devices
get_project_devices(tenant) ==
    get_project_devices_loop(tenant, 0,
        get_tenant_devices(tenant, 1, 1).total_elements)

(***************************************************************************)
(* State.                                                                  *)
(***************************************************************************)
VARIABLES
    db_conn,             \* DatabaseHandler.db_conn: "None", "open", "closed"
    db_cursor,           \* DatabaseHandler.db_cursor: "None", "open", "closed"
    cursors,             \* cursors opened and not closed
    txn,                 \* transaction status of db_conn's connection
    work,                \* content seen by db_conn's transaction
    earlier,             \* the held cursor's connection when it is not db_conn
    store,               \* committed content of the database
    tenant,              \* the platform's devices
    source,              \* the platform's latest raw reading of each device
    pc,                  \* where DataUpdaterService.run is
    devices,             \* run: the list get_project_devices returned
    telemetry_messages,  \* run: the list _get_all_telemetry builds
    idx,                 \* run: the loop position (from 1)
    status,              \* how the last run ended: "none", "returned", "raised"
    log,                 \* the steps of the current or last run
    last,                \* the last operation on the handler or adaptor
    database_handler     \* create_database_handler.database_handler

vars == <<db_conn, db_cursor, cursors, txn, work, earlier, store, tenant,
          source, pc,
          devices, telemetry_messages, idx, status, log, last,
          database_handler>>

handler_vars ==
    <<db_conn, db_cursor, cursors, txn, work, earlier, store, last>>

run_vars == <<pc, devices, telemetry_messages, idx, status, log>>

\* The handler and its connection at the start of an operation.
Self ==
    [db_conn |-> db_conn, db_cursor |-> db_cursor, cursors |-> cursors,
     txn |-> txn, work |-> work, earlier |-> earlier, store |-> store,
     calls |-> <<>>]

\* The record of an operation: its name, the table it is about, its
\* argument, how it ended, the driver calls it made, whether it changed the
\* committed content, and whether it repeats the operation before it (same
\* name and table, which returned).
Record(op, target, arg, r) ==
    [op |-> op, target |-> target, arg |-> arg, raised |-> r.raised,
     error |-> r.error, value |-> r.value, calls |-> r.st.calls,
     changed |-> r.st.store # store,
     again |-> last.op = op /\ last.target = target /\ ~last.raised]

\* The end of an operation: its effects, and the record of what it did.
Done(op, target, arg, r) ==
    \E result \in {r} :
        /\ db_conn' = result.st.db_conn
        /\ db_cursor' = result.st.db_cursor
        /\ cursors' = result.st.cursors
        /\ txn' = result.st.txn
        /\ work' = result.st.work
        /\ earlier' = result.st.earlier
        /\ store' = result.st.store
        /\ last' = Record(op, target, arg, result)

\* The record when no operation on the handler has been made yet.
NoOperation(op) ==
    [op |-> op, target |-> "None", arg |-> "None", raised |-> FALSE,
     error |-> "", value |-> "None", calls |-> <<>>, changed |-> FALSE,
     again |-> FALSE]

\* Inserts into a table that holds MaxRows rows are left out of the model.
RoomIn(table_name) ==
    IsIdentifier(table_name)
        => Len(work[downcase_identifier(table_name)].rows) < MaxRows

(***************************************************************************)
(* The inputs of the model.                                                *)
(***************************************************************************)
ReadingIds == 1..MaxReading

\* The devices whose tables a caller names outside a run.
NameInputs == {<<"d", "1">>, <<"D", "2">>, <<"d", "-", "4">>}

TableInputs == {TableName(n) : n \in NameInputs}

\* Column mappings a caller creates a table with.
ColumnsInputs ==
    {device_table_column_names, << <<"id", "INT">> >>}

\* The telemetry message a caller adds: the mapped complete reading 1.
TelemetryInputs == {get_device_telemetry(FullReading(1)).value}

\* Rows a caller inserts: a telemetry row, a row of an unknown column, and
\* an argument that is no dict.
ColumnValuesInputs ==
    {Dict(telemetry_to_database_entry_converter(t)) : t \in TelemetryInputs}
        \cup {Dict(<< <<"id", 1>> >>), None}

\* The tenants: three motors; a motor whose reading lacks a group, first;
\* a device of another type among the motors; no device.
TenantInputs ==
    { << TenantDevice(<<"d", "1">>, "DieselMotor"),
         TenantDevice(<<"d", "3">>, "DieselMotor"),
         TenantDevice(<<"D", "2">>, "DieselMotor") >>,
      << TenantDevice(<<"d", "3">>, "DieselMotor"),
         TenantDevice(<<"d", "1">>, "DieselMotor") >>,
      << TenantDevice(<<"D", "2">>, "DieselMotor"),
         TenantDevice(<<"d", "1">>, "Gateway"),
         TenantDevice(<<"d", "3">>, "DieselMotor") >>,
      <<>> }

\* The readings: d1 holds the complete reading 1, D2 the complete reading
\* MaxReading, the other devices a reading that lacks "ai".
SourceInputs ==
    { [id \in {<<"uuid", n>> : n \in Names} |->
          CASE id[2] = <<"d", "1">> -> Held(v, {})
            [] id[2] = <<"D", "2">> -> Held(w, {})
            [] OTHER -> Held(1, {"ai"})]
      : v \in {1}, w \in {MaxReading} }

(***************************************************************************)
(* Init: a DatabaseHandler as __init__ leaves it (no connection, no        *)
(* cursor), an empty database, and no run of the service.                  *)
(***************************************************************************)
Init ==
    /\ db_conn = "None"
    /\ db_cursor = "None"
    /\ cursors = 0
    /\ txn = "idle"
    /\ work = EmptyDatabase
    /\ earlier = NoEarlier
    /\ store = EmptyDatabase
    /\ tenant = <<>>
    /\ source \in SourceInputs
    /\ pc = "idle"
    /\ devices = <<>>
    /\ telemetry_messages = <<>>
    /\ idx = 1
    /\ status = "none"
    /\ log = <<>>
    /\ last = NoOperation("__init__")
    /\ database_handler = Unset

(***************************************************************************)
(* Operations of the handler and of the adaptor, called by the code that   *)
(* sets the service up, before its first run (status = "none").            *)
(***************************************************************************)
\* DatabaseHandler.connect, on a handler connected or not.
Connect(fault) ==
    /\ pc = "idle" /\ status = "none"
    /\ Done("connect", "None", "None", connect(Self, fault))
    /\ UNCHANGED <<database_handler, tenant, source, run_vars>>

Disconnect ==
    /\ pc = "idle" /\ status = "none"
    /\ Done("disconnect", "None", "None", disconnect(Self))
    /\ UNCHANGED <<database_handler, tenant, source, run_vars>>

AcquireCursor ==
    /\ pc = "idle" /\ status = "none"
    /\ Done("acquire_cursor", "None", "None", acquire_cursor(Self))
    /\ UNCHANGED <<database_handler, tenant, source, run_vars>>

ReleaseCursor ==
    /\ pc = "idle" /\ status = "none"
    /\ Done("release_cursor", "None", "None", release_cursor(Self))
    /\ UNCHANGED <<database_handler, tenant, source, run_vars>>

CheckTableExists(table_name, fault) ==
    /\ pc = "idle" /\ status = "none"
    /\ Done("check_table_exists", table_name, "None",
            check_table_exists(Self, table_name, fault))
    /\ UNCHANGED <<database_handler, tenant, source, run_vars>>

CreateTable(table_name, columns, fault) ==
    /\ pc = "idle" /\ status = "none"
    /\ Done("create_table", table_name, columns,
            create_table(Self, table_name, columns, fault))
    /\ UNCHANGED <<database_handler, tenant, source, run_vars>>

InsertIntoTable(table_name, column_values, fault) ==
    /\ pc = "idle" /\ status = "none"
    /\ RoomIn(table_name)
    /\ Done("insert_into_table", table_name, column_values,
            insert_into_table(Self, table_name, column_values, fault))
    /\ UNCHANGED <<database_handler, tenant, source, run_vars>>

GetColumnsFromTable(table_name, column_names, fault) ==
    /\ pc = "idle" /\ status = "none"
    /\ Done("get_columns_from_table", table_name, column_names,
            get_columns_from_table(Self, table_name, column_names, fault))
    /\ UNCHANGED <<database_handler, tenant, source, run_vars>>

CheckValueExists(table_name, column_name, value, fault) ==
    /\ pc = "idle" /\ status = "none"
    /\ Done("check_value_exists", table_name, value,
            check_value_exists(Self, table_name, column_name, value, fault))
    /\ UNCHANGED <<database_handler, tenant, source, run_vars>>

CreateNewDeviceTable(device_id, fault1, fault2) ==
    /\ pc = "idle" /\ status = "none"
    /\ Done("create_new_device_table", TableName(device_id), device_id,
            create_new_device_table(Self, device_id, fault1, fault2))
    /\ UNCHANGED <<database_handler, tenant, source, run_vars>>

AddTelemetry(device_id, telemetry, fault) ==
    /\ pc = "idle" /\ status = "none"
    /\ RoomIn(TableName(device_id))
    /\ Done("add_telemetry", TableName(device_id), telemetry,
            add_telemetry(Self, device_id, telemetry, fault))
    /\ UNCHANGED <<database_handler, tenant, source, run_vars>>

(***************************************************************************)
(* DataUpdaterService.run, one step per call it makes.  No step catches an *)
(* exception: a call that raises ends the run there.                       *)
(***************************************************************************)
Event(step, index, ok) == [step |-> step, index |-> index, ok |-> ok]

\* The next position of the run after a step on entry idx.
Proceed(step, raised, next_pc, next_idx) ==
    /\ log' = Append(log, Event(step, idx, ~raised))
    /\ pc' = IF raised THEN "idle" ELSE next_pc
    /\ status' = IF raised THEN "raised" ELSE status
    /\ idx' = IF raised THEN idx ELSE next_idx

\* DatabaseAdaptor defines no update_vehicles_data, which run calls: the
\* attribute lookup raises AttributeError.  outcome = "returned" stands for
\* a build in which the method is defined; it then changes nothing the
\* model holds.
update_vehicles_data(s, device_id, telemetry, outcome) ==
    IF outcome = "raised" THEN Raise(s, "AttributeError") ELSE Return(s, "None")

\* run is called: _get_all_telemetry asks for the devices the platform
\* holds at that time.
RunGetProjectDevices ==
    /\ pc = "idle"
    /\ pc' = "fetch"
    /\ tenant' \in TenantInputs
    /\ devices' = get_project_devices(tenant')
    /\ telemetry_messages' = <<>>
    /\ idx' = 1
    /\ status' = "running"
    /\ log' = <<>>
    /\ last' = NoOperation("run")
    /\ UNCHANGED <<database_handler,
                   source, db_conn, db_cursor, cursors, txn, work, earlier,
                   store>>

\* One iteration of the loop of _get_all_telemetry: the telemetry is read
\* for devices[0] and paired with each_device.
RunGetDeviceTelemetry ==
    /\ pc = "fetch"
    /\ idx <= Len(devices)
    /\ LET each_device == devices[idx]
           telemetry == get_device_telemetry(
                            get_latest_timeseries(source, devices[1].id))
       IN  /\ telemetry_messages' =
                 IF telemetry.raised
                 THEN telemetry_messages
                 ELSE Append(telemetry_messages,
                             [device |-> each_device,
                              telemetry |-> telemetry.value])
           /\ Proceed("fetch", telemetry.raised, "fetch", idx + 1)
    /\ UNCHANGED <<database_handler, tenant, source, devices, handler_vars>>

\* _get_all_telemetry returning after its first iteration.
RunGotAllTelemetry_early ==
    /\ pc = "fetch"
    /\ idx > 1
    /\ pc' = "provision"
    /\ idx' = 1
    /\ UNCHANGED <<database_handler,
                   tenant, source, devices, telemetry_messages, status, log,
                   handler_vars>>

\* _get_all_telemetry returns: run starts its loop over telemetry_messages.
RunGotAllTelemetry ==
    /\ pc = "fetch"
    /\ idx > Len(devices)
    /\ pc' = "provision"
    /\ idx' = 1
    /\ UNCHANGED <<database_handler,
                   tenant, source, devices, telemetry_messages, status, log,
                   handler_vars>>

\* self.database_adaptor.create_new_device_table(each_telemetry["device"].name)
RunCreateNewDeviceTable(fault1, fault2) ==
    /\ pc = "provision"
    /\ idx <= Len(telemetry_messages)
    /\ LET each_telemetry == telemetry_messages[idx]
       IN  \E r \in {create_new_device_table(Self,
                          each_telemetry.device.name, fault1, fault2)} :
               /\ Done("create_new_device_table",
                       TableName(each_telemetry.device.name),
                       each_telemetry.device.name, r)
               /\ Proceed("provision", r.raised, "persist", idx)
    /\ UNCHANGED <<database_handler,
                   tenant, source, devices, telemetry_messages>>

\* self.database_adaptor.add_telemetry(device_id=..., telemetry=...)
RunAddTelemetry(fault) ==
    /\ pc = "persist"
    /\ LET each_telemetry == telemetry_messages[idx]
       IN  /\ RoomIn(TableName(each_telemetry.device.name))
           /\ \E r \in {add_telemetry(Self, each_telemetry.device.name,
                                      each_telemetry.telemetry, fault)} :
                  /\ Done("add_telemetry",
                          TableName(each_telemetry.device.name),
                          each_telemetry.telemetry, r)
                  /\ Proceed("persist", r.raised, "update", idx)
    /\ UNCHANGED <<database_handler,
                   tenant, source, devices, telemetry_messages>>

\* self.database_adaptor.update_vehicles_data(device_id=..., telemetry=...)
RunUpdateVehiclesData(outcome) ==
    /\ pc = "update"
    /\ LET each_telemetry == telemetry_messages[idx]
           r == update_vehicles_data(Self, each_telemetry.device.name,
                                     each_telemetry.telemetry, outcome)
       IN  /\ Done("update_vehicles_data",
                   TableName(each_telemetry.device.name),
                   each_telemetry.telemetry, r)
           /\ Proceed("update", r.raised, "provision", idx + 1)
    /\ UNCHANGED <<database_handler,
                   tenant, source, devices, telemetry_messages>>

\* The loop of run is over: run returns (None).
RunReturn ==
    /\ pc = "provision"
    /\ idx > Len(telemetry_messages)
    /\ pc' = "idle"
    /\ status' = "returned"
    /\ UNCHANGED <<database_handler,
                   tenant, source, devices, telemetry_messages, idx, log,
                   handler_vars>>

(***************************************************************************)
(* The specification.                                                      *)
(***************************************************************************)
Next ==
    \/ \E f \in Faults : Connect(f)
    \/ Disconnect
    \/ AcquireCursor
    \/ ReleaseCursor
    \/ \E t \in TableInputs, f \in Faults : CheckTableExists(t, f)
    \/ \E t \in TableInputs, c \in ColumnsInputs, f \in Faults : CreateTable(t, c, f)
    \/ \E t \in TableInputs, cv \in ColumnValuesInputs, f \in Faults :
          InsertIntoTable(t, cv, f)
    \/ \E t \in TableInputs, f \in Faults :
          GetColumnsFromTable(t, {"battery_percentage", "ai_timestamp"}, f)
    \/ \E t \in TableInputs, v \in ReadingIds, f \in Faults :
          CheckValueExists(t, "battery_percentage", v, f)
    \/ \E n \in NameInputs, f1 \in Faults, f2 \in Faults :
          CreateNewDeviceTable(n, f1, f2)
    \/ \E n \in NameInputs, t \in TelemetryInputs, f \in Faults :
          AddTelemetry(n, t, f)
    \/ RunGetProjectDevices
    \/ RunGetDeviceTelemetry
    \/ RunGotAllTelemetry
    \/ \E f1 \in Faults, f2 \in Faults : RunCreateNewDeviceTable(f1, f2)
    \/ \E f \in Faults : RunAddTelemetry(f)
    \/ \E o \in {"returned", "raised"} : RunUpdateVehiclesData(o)
    \/ RunReturn

Spec == Init /\ [][Next]_vars

(***************************************************************************)
(* The ThingsBoardAdaptor on its own: get_project_devices and              *)
(* get_device_telemetry called directly, as main of data_updater.py calls  *)
(* them, on the tenants and the readings of a wider set.                   *)
(***************************************************************************)
MaxTenant == 3

DeviceTypes == {"DieselMotor", "Gateway"}

\* The tenants of up to MaxTenant devices of distinct names, of either type.
WideTenantInputs ==
    UNION {{[i \in 1..n |-> TenantDevice(name[i], type[i])] :
               name \in {f \in [1..n -> Names] :
                            \A i, j \in 1..n : f[i] = f[j] => i = j},
               type \in [1..n -> DeviceTypes]} : n \in 0..MaxTenant}

\* The readings: a complete one, and one with a single damage: a group it
\* lacks, a group with no entry, a group whose payload is no JSON text, a
\* payload that lacks one key.
DamageInputs ==
    UNION {{Damaged(v, {}, {}, {}, {})}
           \cup {Damaged(v, {g}, {}, {}, {}) : g \in GroupSet}
           \cup {Damaged(v, {}, {g}, {}, {}) : g \in GroupSet}
           \cup {Damaged(v, {}, {}, {g}, {}) : g \in GroupSet}
           \cup UNION {{Damaged(v, {}, {}, {}, {<<g, k>>}) :
                           k \in PayloadKeys(g)} : g \in GroupSet}
           : v \in ReadingIds}

\* d1 holds any of these readings, the other devices a complete one.
WideSourceInputs ==
    { [id \in {<<"uuid", n>> : n \in Names} |->
          IF id[2] = <<"d", "1">> THEN h ELSE Held(MaxReading, {})]
      : h \in DamageInputs }

\* The devices a caller asks the telemetry of.
DeviceInputs ==
    {ThingsBoardDevice(TenantDevice(n, "DieselMotor")) : n \in Names}

InitDevices ==
    /\ db_conn = "None"
    /\ db_cursor = "None"
    /\ cursors = 0
    /\ txn = "idle"
    /\ work = EmptyDatabase
    /\ earlier = NoEarlier
    /\ store = EmptyDatabase
    /\ tenant \in WideTenantInputs
    /\ source \in SourceInputs
    /\ pc = "idle"
    /\ devices = <<>>
    /\ telemetry_messages = <<>>
    /\ idx = 1
    /\ status = "none"
    /\ log = <<>>
    /\ last = NoOperation("__init__")
    /\ database_handler = Unset

InitTelemetry ==
    /\ db_conn = "None"
    /\ db_cursor = "None"
    /\ cursors = 0
    /\ txn = "idle"
    /\ work = EmptyDatabase
    /\ earlier = NoEarlier
    /\ store = EmptyDatabase
    /\ tenant = <<>>
    /\ source \in WideSourceInputs
    /\ pc = "idle"
    /\ devices = <<>>
    /\ telemetry_messages = <<>>
    /\ idx = 1
    /\ status = "none"
    /\ log = <<>>
    /\ last = NoOperation("__init__")
    /\ database_handler = Unset

\* devices = connector.get_project_devices()
GetProjectDevices ==
    /\ pc = "idle"
    /\ devices' = get_project_devices(tenant)
    /\ last' = [NoOperation("get_project_devices") EXCEPT !.value = devices']
    /\ UNCHANGED <<database_handler,
                   db_conn, db_cursor, cursors, txn, work, earlier, store,
                   tenant, source, pc, telemetry_messages, idx, status, log>>

\* connector.get_device_telemetry(device): the mapped reading, or the
\* exception and the key it names.
GetDeviceTelemetry(device) ==
    /\ pc = "idle"
    /\ LET r == get_device_telemetry(get_latest_timeseries(source, device.id))
       IN  last' = [op |-> "get_device_telemetry", target |-> device.id,
                    arg |-> device, raised |-> r.raised, error |-> r.error,
                    key |-> r.key, value |-> r.value, calls |-> <<>>,
                    changed |-> FALSE, again |-> FALSE]
    /\ UNCHANGED <<database_handler,
                   db_conn, db_cursor, cursors, txn, work, earlier, store,
                   tenant, source, run_vars>>

NextDevices == GetProjectDevices

SpecDevices == InitDevices /\ [][NextDevices]_vars

NextTelemetry == \E device \in DeviceInputs : GetDeviceTelemetry(device)

SpecTelemetry == InitTelemetry /\ [][NextTelemetry]_vars

(***************************************************************************)
(* create_database_handler on its own, called any number of times with any *)
(* settings or none.                                                       *)
(***************************************************************************)
SettingsInputs ==
    {NoSettings} \cup {DatabaseSettings(host) : host \in 1..MaxSettings}

\* create_database_handler(settings); the record keeps the attribute as the
\* call found it.
CreateDatabaseHandler(settings) ==
    /\ pc = "idle" /\ status = "none"
    /\ LET r == create_database_handler(database_handler, settings)
       IN  /\ database_handler' = r.attribute
           /\ last' = [op |-> "create_database_handler", target |-> "None",
                       arg |-> settings, raised |-> r.raised,
                       error |-> r.error, value |-> r.value,
                       before |-> database_handler, calls |-> <<>>,
                       changed |-> FALSE, again |-> FALSE]
    /\ UNCHANGED <<db_conn, db_cursor, cursors, txn, work, earlier, store,
                   tenant, source, run_vars>>

NextFactory == \E settings \in SettingsInputs : CreateDatabaseHandler(settings)

SpecFactory == Init /\ [][NextFactory]_vars

(***************************************************************************)
(* Properties.                                                             *)
(***************************************************************************)
\* The table a statement with table_name in its text works on, in the
\* committed content and in the content db_conn's transaction sees: no
\* table when the name is no identifier.
Stored(table_name) ==
    IF IsIdentifier(table_name)
    THEN store[downcase_identifier(table_name)]
    ELSE NoTable

Seen(table_name) ==
    IF IsIdentifier(table_name)
    THEN work[downcase_identifier(table_name)]
    ELSE NoTable

\* The operations of the handler that with_cursor wraps.
WithCursorOperations ==
    {"check_table_exists", "create_table", "insert_into_table",
     "get_columns_from_table", "check_value_exists"}

\* The last operation made the driver call c.
InCalls(c) == \E i \in 1..Len(last.calls) : last.calls[i] = c

\* The run has ended, by returning or by an exception.
RunEnded == pc = "idle" /\ status \in {"returned", "raised"}

\* C1: when an operation wrapped by with_cursor has ended, by returning or
\* by raising, its cursor is closed and db_cursor is None: no cursor is left
\* open across operations.
C1_CursorReleasedOnEveryExit ==
    last.op \in WithCursorOperations => db_cursor = "None" /\ cursors = 0

\* C2: a create_table or insert_into_table whose statement succeeded has
\* committed and not rolled back; one whose statement failed has rolled back
\* and not committed, and has raised.
C2_CommitOrRollbackNeverBoth ==
    /\ last.op = "create_table" /\ InCalls("CREATE TABLE IF NOT EXISTS")
          => IF last.raised
             THEN InCalls("rollback") /\ ~InCalls("commit")
             ELSE InCalls("commit") /\ ~InCalls("rollback")
    /\ last.op = "insert_into_table" /\ InCalls("INSERT")
          => IF last.raised
             THEN InCalls("rollback") /\ ~InCalls("commit")
             ELSE InCalls("commit") /\ ~InCalls("rollback")

\* C3: an insert_into_table whose statement failed has left the committed
\* content as it was, and its transaction has been rolled back when the
\* operation ends, before any later operation uses the connection.
C3_FailedInsertRolledBack ==
    last.op = "insert_into_table" /\ last.raised /\ InCalls("INSERT")
        => ~last.changed /\ InCalls("rollback") /\ txn # "inerror"

\* C4: after create_table or insert_into_table has returned, the table, or
\* the row, is in the committed content, the transaction of db_conn is over
\* and sees that same content: the operation has committed its statement
\* and the rollback that follows the commit has undone nothing.
C4_CommittedEffectStays ==
    /\ last.op = "create_table" /\ ~last.raised
          => /\ Stored(last.target).exists
             /\ last.changed => Stored(last.target).columns = last.arg
             /\ work = store /\ txn = "idle"
    /\ last.op = "insert_into_table" /\ ~last.raised
          => /\ last.changed
             /\ Len(Stored(last.target).rows) > 0
             /\ Stored(last.target).rows[Len(Stored(last.target).rows)]
                   = RowOf(last.arg.items)
             /\ work = store /\ txn = "idle"

\* C5: a failure at a step of one entity does not end the run: when the run
\* has ended, every entity after one that failed has been processed too.
C5_FailureIsolation ==
    RunEnded =>
        \A j \in 1..Len(log) :
            ~log[j].ok =>
                \A i \in (log[j].index + 1)..Len(devices) :
                    \E k \in 1..Len(log) : log[k].index = i /\ k > j

\* C6: the telemetry paired with each device in telemetry_messages is the
\* mapped latest reading of that same device.
C6_TelemetryOfTheSameDevice ==
    \A i \in 1..Len(telemetry_messages) :
        LET own == get_device_telemetry(
                       get_latest_timeseries(source,
                                             telemetry_messages[i].device.id))
        IN  ~own.raised /\ telemetry_messages[i].telemetry = own.value

\* The number of rows of a table equal to row.
Copies(table, row) ==
    Cardinality({i \in 1..Len(table.rows) : table.rows[i] = row})

\* C7: once add_telemetry has returned for a reading, the device's table
\* holds exactly one row for it, however many times it was added.
C7_OneRowPerReading ==
    last.op = "add_telemetry" /\ ~last.raised
        => Copies(Stored(last.target),
                  RowOf(telemetry_to_database_entry_converter(last.arg))) = 1

\* C8: a create_new_device_table that follows a create_new_device_table for
\* the same device which returned issues no CREATE, leaves the committed
\* content (the table's columns) as it is, finds the table there and
\* returns EXISTING; it does not raise, unless the database rejects its
\* existence query for a reason of its own ("DatabaseError").
C8_ProvisioningIdempotent ==
    last.op = "create_new_device_table" /\ last.again
        => /\ ~InCalls("CREATE TABLE IF NOT EXISTS")
           /\ ~last.changed
           /\ Stored(last.target).exists
           /\ last.raised => last.error = "DatabaseError"
           /\ ~last.raised => last.value = DeviceTableStatus_EXISTING

\* C9: when the run has ended, every device the source returned has an
\* outcome: its telemetry was persisted, or a step on it failed.
C9_EveryEntityAttempted ==
    RunEnded =>
        \A i \in 1..Len(devices) :
            \E j \in 1..Len(log) :
                /\ log[j].index = i
                /\ ~log[j].ok \/ log[j].step = "persist"

\* C10: an operation of the handler invoked before connect fails with a
\* ConnectionError and performs no statement.
C10_ConnectionErrorWhenUnconnected ==
    db_conn = "None" /\ last.op \in WithCursorOperations
        => last.raised /\ last.error = "ConnectionError" /\ last.calls = <<>>

\* The groups a reading with a single missing group or a single missing
\* payload key is damaged in: the group it lacks, the group of the key.
LackingGroups(h) ==
    IF h.empty = {} /\ h.garbled = {}
    THEN h.lacks \cup {p[1] : p \in h.without}
    ELSE {}

\* C11: get_device_telemetry on a reading that lacks one group, or one key
\* of a payload, raises MappingError naming that group and builds no
\* TelemetryMessage.
C11_MappingErrorNamesTheGroup ==
    last.op = "get_device_telemetry"
        => \A g \in LackingGroups(source[last.target]) :
              /\ last.raised
              /\ last.error = "MappingError"
              /\ last.key = g
              /\ DOMAIN last.value = {}

\* The reading the last get_device_telemetry was given.
LastReading == get_latest_timeseries(source, last.target)

\* The reading has group g with an entry whose payload is JSON text that
\* holds the keys.
Carries(telemetry_message, g, keys) ==
    /\ g \in DOMAIN telemetry_message
    /\ Len(telemetry_message[g]) > 0
    /\ telemetry_message[g][1].value.parsed
    /\ keys \subseteq DOMAIN telemetry_message[g][1].value.fields

Payload(telemetry_message, g) == telemetry_message[g][1].value.fields

\* C12 as stated: on a reading whose battery payload holds v and ts, whose
\* GPS payload holds lat, lng and spd and whose AI payload holds n, e1, e2
\* and e3, get_device_telemetry returns a message whose ai_timestamp is the
\* "ts" of the AI entry (and whose other fields are as in C12 below).
C12_AiTimestampOfTheEntry ==
    last.op = "get_device_telemetry"
        /\ Carries(LastReading, "bat", {"v", "ts"})
        /\ Carries(LastReading, "gnss", {"lat", "lng", "spd"})
        /\ Carries(LastReading, "ai", {"n", "e1", "e2", "e3"})
        /\ Carries(LastReading, "dev", PayloadKeys("dev"))
        /\ Carries(LastReading, "env", PayloadKeys("env"))
        => /\ ~last.raised
           /\ last.value.battery_percentage = Payload(LastReading, "bat").v
           /\ last.value.battery_timestamp = Payload(LastReading, "bat").ts
           /\ last.value.gps_latitude = Payload(LastReading, "gnss").lat
           /\ last.value.gps_longitude = Payload(LastReading, "gnss").lng
           /\ last.value.gps_timestamp = LastReading["gnss"][1].ts
           /\ last.value.ai_normal_percentage = Payload(LastReading, "ai").n
           /\ last.value.ai_error1_percentage = Payload(LastReading, "ai").e1
           /\ last.value.ai_error2_percentage = Payload(LastReading, "ai").e2
           /\ last.value.ai_error3_percentage = Payload(LastReading, "ai").e3
           /\ last.value.ai_timestamp = LastReading["ai"][1].ts

\* C12: on a reading whose five groups are complete, the AI payload holding
\* its own ts as the battery payload does, get_device_telemetry returns a
\* message with battery_percentage = v and battery_timestamp = ts of the
\* battery payload, gps_latitude = lat and gps_longitude = lng of the GPS
\* payload, gps_timestamp = the "ts" of the GPS entry, ai_*_percentage = n,
\* e1, e2, e3 and ai_timestamp = ts of the AI payload.
C12_MappedFieldsOfTheReading ==
    last.op = "get_device_telemetry"
        /\ (\A g \in GroupSet : Carries(LastReading, g, PayloadKeys(g)))
        => /\ ~last.raised
           /\ last.value.battery_percentage = Payload(LastReading, "bat").v
           /\ last.value.battery_timestamp = Payload(LastReading, "bat").ts
           /\ last.value.gps_latitude = Payload(LastReading, "gnss").lat
           /\ last.value.gps_longitude = Payload(LastReading, "gnss").lng
           /\ last.value.gps_timestamp = LastReading["gnss"][1].ts
           /\ last.value.ai_normal_percentage = Payload(LastReading, "ai").n
           /\ last.value.ai_error1_percentage = Payload(LastReading, "ai").e1
           /\ last.value.ai_error2_percentage = Payload(LastReading, "ai").e2
           /\ last.value.ai_error3_percentage = Payload(LastReading, "ai").e3
           /\ last.value.ai_timestamp = Payload(LastReading, "ai").ts

C12_Witness ==
    /\ last.op = "get_device_telemetry"
    /\ \A g \in GroupSet : Carries(LastReading, g, PayloadKeys(g))
    /\ ~last.raised
    /\ last.value.ai_timestamp = Payload(LastReading, "ai").ts
    /\ last.value.ai_timestamp # LastReading["ai"][1].ts
    /\ last.value.gps_timestamp = LastReading["gnss"][1].ts

\* The layout of a device table as the persisted schema states it.
PersistedLayout ==
    << <<"battery_percentage", "FLOAT">>, <<"battery_timestamp", "BIGINT">>,
       <<"gps_latitude", "FLOAT">>, <<"gps_longitude", "FLOAT">>,
       <<"gps_timestamp", "BIGINT">>, <<"ai_normal_percentage", "INT">>,
       <<"ai_error1_percentage", "INT">>, <<"ai_error2_percentage", "INT">>,
       <<"ai_error3_percentage", "INT">>, <<"ai_timestamp", "BIGINT">> >>

\* The committed table the catalogue holds under exactly this name.
Named(table_name) ==
    IF table_name \in Tables THEN store[table_name] ELSE NoTable

\* C13: when create_new_device_table has returned NEW for an entity, in a
\* run (whatever the entity's reading) or outside one, it has issued a
\* CREATE, the catalogue holds a table named device_<entity name>, and the
\* committed table of the entity has exactly the ten columns of the
\* persisted schema, in that order.
C13_ColumnLayoutStable ==
    last.op = "create_new_device_table" /\ ~last.raised
        /\ last.value = DeviceTableStatus_NEW
        => /\ last.target = <<"device", last.arg>>
           /\ InCalls("CREATE TABLE IF NOT EXISTS")
           /\ Named(TableName(last.arg)).exists
           /\ Stored(last.target).exists
           /\ Stored(last.target).columns = PersistedLayout
           /\ Seen(last.target).columns = PersistedLayout

\* The place of a step among the steps on one entity.
StepRank(step) ==
    CASE step = "fetch" -> 0
      [] step = "provision" -> 1
      [] step = "persist" -> 2
      [] step = "update" -> 3

\* Every insert of the run follows the successful provisioning of the same
\* entity's table, with no step in between.
InsertsFollowProvisioning ==
    \A k \in 1..Len(log) :
        log[k].step = "persist"
            => k > 1 /\ log[k - 1] = Event("provision", log[k].index, TRUE)

\* C14 as stated: the steps of a run go entity by entity, each entity's
\* steps in the order fetch (and map), provision, persist, all of them
\* before the first step of the next entity, and every insert follows the
\* provisioning of its entity's table.
C14_EntityByEntity ==
    /\ \A j, k \in 1..Len(log) :
           j < k => \/ log[j].index < log[k].index
                    \/ /\ log[j].index = log[k].index
                       /\ StepRank(log[j].step) < StepRank(log[k].step)
    /\ InsertsFollowProvisioning

\* C14: a run first fetches and maps every entity, in the order of the
\* enumeration; only then it goes entity by entity, in that order, through
\* provision and then persist: every insert follows the provisioning of its
\* entity's table, and the provision and persist steps of one entity finish
\* before those of the next entity begin.
C14_FetchAllThenEntityByEntity ==
    /\ \A j, k \in 1..Len(log) :
           j < k =>
               \/ log[j].step = "fetch" /\ log[k].step # "fetch"
               \/ /\ (log[j].step = "fetch") = (log[k].step = "fetch")
                  /\ \/ log[j].index < log[k].index
                     \/ /\ log[j].index = log[k].index
                        /\ StepRank(log[j].step) < StepRank(log[k].step)
    /\ \A k \in 1..Len(log) :
           log[k].step # "fetch" =>
               \A i \in 1..Len(devices) :
                   \E j \in 1..(k - 1) : log[j] = Event("fetch", i, TRUE)
    /\ InsertsFollowProvisioning

\* A run over several entities has fetched them all and has provisioned and
\* persisted the first.
C14_Witness ==
    /\ pc = "update"
    /\ Len(devices) >= 2
    /\ Len(log) = Len(devices) + 2
    /\ log[Len(log)] = Event("persist", 1, TRUE)
    /\ log[2] = Event("fetch", 2, TRUE)

\* The tenant's device as get_project_devices lists it.
Listed(device) == [name |-> device.name, id |-> device.id]

\* C15: the list get_project_devices has returned holds every DieselMotor
\* of the tenant exactly once and nothing else, for every number of tenant
\* devices.
C15_ExactlyTheDieselMotors ==
    last.op = "get_project_devices"
        => /\ last.value = devices
           /\ \A i \in 1..Len(tenant) :
                  tenant[i].type = "DieselMotor"
                      => Cardinality({j \in 1..Len(devices) :
                                         devices[j] = Listed(tenant[i])}) = 1
           /\ \A j \in 1..Len(devices) :
                  \E i \in 1..Len(tenant) :
                      /\ tenant[i].type = "DieselMotor"
                      /\ devices[j] = Listed(tenant[i])

\* A tenant of three devices, the first and the last of them motors and the
\* second of another type, has been listed.
C15_Witness ==
    /\ last.op = "get_project_devices"
    /\ Len(tenant) = 3
    /\ tenant[2].type # "DieselMotor"
    /\ devices = << Listed(tenant[1]), Listed(tenant[3]) >>

\* The table has been created with the column mapping of the device tables.
Provisioned(table) ==
    table.exists /\ table.columns = device_table_column_names

\* The table the statements of the held cursor see under table_name.
CursorView(table_name) ==
    IF ~IsIdentifier(table_name)
    THEN NoTable
    ELSE IF earlier.on
    THEN earlier.work[downcase_identifier(table_name)]
    ELSE work[downcase_identifier(table_name)]

\* C16: the row add_telemetry passes to insert_into_table names the columns
\* of the mapping the device table is created with, all of them and in the
\* same order.  On a provisioned table the database therefore never rejects
\* the insert for its columns, and the row an insert has committed has a
\* value for every column of the table.
C16_RowNamesTheTableColumns ==
    last.op = "add_telemetry"
        => LET row == telemetry_to_database_entry_converter(last.arg)
               table == Stored(last.target)
           IN  /\ Keys(row) = Keys(device_table_column_names)
               /\ Provisioned(CursorView(last.target)) /\ last.raised
                      => last.error # "ProgrammingError"
               /\ Provisioned(table) /\ last.changed
                      => /\ ~last.raised
                         /\ Len(table.rows) > 0
                         /\ DOMAIN table.rows[Len(table.rows)]
                                = KeySet(table.columns)
                         /\ table.rows[Len(table.rows)] = RowOf(row)

\* add_telemetry has inserted a row into a provisioned table.
C16_Witness ==
    /\ last.op = "add_telemetry" /\ ~last.raised /\ last.changed
    /\ InCalls("INSERT")
    /\ Provisioned(Stored(last.target))
    /\ DOMAIN Stored(last.target).rows[1] = KeySet(PersistedLayout)

\* C17: a create_database_handler that finds a handler returns that handler,
\* with the settings it was made with, whatever settings the call gives; one
\* that finds none makes the function's first handler from its settings
\* and keeps it, or, given no settings, raises ValueError and keeps none.
C17_CreateOnce ==
    /\ database_handler.set => database_handler.instance = 1
    /\ last.op = "create_database_handler"
           => IF last.before.set
              THEN /\ ~last.raised
                   /\ last.value = last.before
                   /\ database_handler = last.before
              ELSE IF last.arg.given
              THEN /\ ~last.raised
                   /\ last.value = [set |-> TRUE, instance |-> 1,
                                    settings |-> last.arg]
                   /\ database_handler = last.value
              ELSE /\ last.raised
                   /\ last.error = "ValueError"
                   /\ database_handler = Unset

\* A call with other settings than the first has returned the first handler.
C17_Witness ==
    /\ last.op = "create_database_handler"
    /\ last.before.set
    /\ last.arg.given
    /\ last.arg # last.before.settings
    /\ ~last.raised
    /\ last.value = last.before
    /\ database_handler.settings = last.before.settings

\* The number of cursors the last operation asked the connection for.
CursorCalls ==
    Cardinality({i \in 1..Len(last.calls) : last.calls[i] = "cursor"})

\* C18: after any sequence of operations, returned or raised, the
\* connection has at most one cursor that was opened and not closed, and it
\* is the one db_cursor holds; an operation wrapped by with_cursor asks for
\* at most one cursor, before any statement, and for none when it reuses
\* the cursor an earlier failed operation left.
C18_AtMostOneCursor ==
    /\ cursors <= 1
    /\ (cursors = 1) = (db_cursor = "open")
    /\ last.op \in WithCursorOperations
           => /\ CursorCalls <= 1
              /\ CursorCalls = 1 => last.calls[1] = "cursor"

\* An operation has reused the cursor a failed operation had left, has
\* returned and has closed it.
C18_Witness ==
    /\ last.op \in WithCursorOperations
    /\ ~last.raised
    /\ CursorCalls = 0
    /\ InCalls("close")
    /\ cursors = 0

=============================================================================
